---- MODULE Spec2Model ----
(***************************************************************************)
(* Model of the prescription processor: the text extractors of             *)
(* ocr_processor.py (extract_field, extract_date, extract_notes), the      *)
(* orchestrator process_prescription_image and the upload endpoint of      *)
(* main.py with its persistence collaborator.                              *)
(*                                                                         *)
(* Texts are sequences of one-character strings; offsets are 0-based, as   *)
(* in Python.  An optional value (Python None / a value) is a sequence of  *)
(* length 0 or 1.                                                          *)
(***************************************************************************)
EXTENDS Integers, Sequences, FiniteSets, TLC

VARIABLES
    given,      \* the written date a text of the date specification was rendered from
    text,       \* the text handed to an extractor (the OCR output)
    called,     \* the extractors that have been applied to text
    result,     \* what each returned, and the keyword list extract_field was given
    pc,         \* position of the current upload request
    req,        \* the current request: API key header, body, environment
    rec,        \* extracted_data of the current process_prescription_image call
    attempted,  \* the extractors process_prescription_image has invoked
    raised,     \* the exception leaving process_prescription_image, if any
    response,   \* the outcome of the current request
    db,         \* the rows of the prescriptions table
    nextId,     \* the identifiers uuid4 has handed out so far
    storeCalls, \* insert calls made for the current request
    served,     \* requests completed so far
    returned    \* every record process_prescription_image has returned, with its OCR text

vars == <<given, text, called, result, pc, req, rec, attempted, raised, response,
          db, nextId, storeCalls, served, returned>>

extractorVars == <<given, text, called, result>>
requestVars == <<pc, req, rec, attempted, raised, response, db, nextId,
                 storeCalls, served, returned>>

(***************************************************************************)
(* Characters                                                              *)
(***************************************************************************)
UpperSeq == <<"A","B","C","D","E","F","G","H","I","J","K","L","M",
              "N","O","P","Q","R","S","T","U","V","W","X","Y","Z">>
LowerSeq == <<"a","b","c","d","e","f","g","h","i","j","k","l","m",
              "n","o","p","q","r","s","t","u","v","w","x","y","z">>
Upper == {UpperSeq[k] : k \in 1..26}
Lower == {LowerSeq[k] : k \in 1..26}
Digit == {"0","1","2","3","4","5","6","7","8","9"}
Space == {" ", "\n", "\t"}
Punct == {":", "/", "-", ",", "."}
AnyChar == Upper \cup Lower \cup Digit \cup Space \cup Punct
NotNewline == AnyChar \ {"\n"}

ToLower(c) == IF c \in Upper THEN LowerSeq[CHOOSE k \in 1..26 : UpperSeq[k] = c] ELSE c
ToUpper(c) == IF c \in Lower THEN UpperSeq[CHOOSE k \in 1..26 : LowerSeq[k] = c] ELSE c
\* the characters a set matches under re.IGNORECASE
Fold(S) == S \cup {ToLower(c) : c \in S} \cup {ToUpper(c) : c \in S}

None == <<>>
Some(v) == <<v>>

\* s[i:j] and s[i:] of Python
Slice(s, i, j) == IF j <= i THEN <<>> ELSE SubSeq(s, i + 1, j)
From(s, i) == Slice(s, i, Len(s))

(***************************************************************************)
(* Regular expressions, with the backtracking order of Python's re: a     *)
(* node matches at an offset in a sequence of ways, most preferred first.  *)
(* Each way is [e |-> end offset, g |-> spans of the named groups].        *)
(***************************************************************************)
In(S) == [t |-> "set", S |-> S]
Cat(xs) == [t |-> "cat", xs |-> xs]
Alt(xs) == [t |-> "alt", xs |-> xs]
\* S{lo,hi}, greedy, of a character set S; hi < 0: no limit
Rep(S, lo, hi) == [t |-> "rep", S |-> S, lo |-> lo, hi |-> hi]
Grp(name, a) == [t |-> "grp", name |-> name, a |-> a]
Star(S) == Rep(S, 0, -1)
Plus(S) == Rep(S, 1, -1)
Opt(S) == Rep(S, 0, 1)
\* a literal text, matched exactly / under re.IGNORECASE
Lit(s) == [t |-> "lit", cs |-> [k \in 1..Len(s) |-> {s[k]}] \o <<>>]
LitI(s) == [t |-> "lit", cs |-> [k \in 1..Len(s) |-> Fold({s[k]})] \o <<>>]

NoGroups == <<>>
Way(e, g) == [e |-> e, g |-> g]

\* ss[lo] \o ... \o ss[hi]
RECURSIVE Flatten(_, _, _)
Flatten(ss, lo, hi) ==
    IF lo > hi THEN <<>>
    ELSE IF lo = hi THEN ss[lo]
    ELSE Flatten(ss, lo, (lo + hi) \div 2) \o Flatten(ss, (lo + hi) \div 2 + 1, hi)

\* the ways B, each continued from a way that had bound the groups g
After(B, g) == [b \in 1..Len(B) |-> Way(B[b].e, B[b].g @@ g)] \o <<>>

\* the ways A of a group's body that started at offset i
Bind(A, name, i) ==
    [a \in 1..Len(A) |-> Way(A[a].e, (name :> <<i, A[a].e>>) @@ A[a].g)] \o <<>>

\* how many characters of S follow offset i
RunLength(s, i, S) ==
    CHOOSE n \in 0..(Len(s) - i) :
        /\ \A k \in 1..n : s[i + k] \in S
        /\ i + n = Len(s) \/ s[i + n + 1] \notin S

\* greedy: the longest run first, then one character less, down to lo
RepM(S, lo, hi, s, i) ==
    LET n == RunLength(s, i, S)
        top == IF hi >= 0 /\ hi < n THEN hi ELSE n
    IN IF top < lo THEN <<>>
       ELSE [j \in 1..(top - lo + 1) |-> Way(i + top - j + 1, NoGroups)] \o <<>>

LitM(cs, s, i) ==
    IF i + Len(cs) <= Len(s) /\ \A k \in 1..Len(cs) : s[i + k] \in cs[k]
    THEN <<Way(i + Len(cs), NoGroups)>> ELSE <<>>

(* A concatenation is matched element by element: W holds the ways the first
   k - 1 elements match, most preferred first, and each is continued by the
   ways of the k-th element, which keeps the backtracking order. *)
RECURSIVE M(_, _, _), CatFold(_, _, _, _), Step(_, _, _)
M(n, s, i) ==
    CASE n.t = "set" ->
           IF i < Len(s) /\ s[i + 1] \in n.S THEN <<Way(i + 1, NoGroups)>> ELSE <<>>
      [] n.t = "lit" -> LitM(n.cs, s, i)
      [] n.t = "rep" -> RepM(n.S, n.lo, n.hi, s, i)
      [] n.t = "cat" -> CatFold(n.xs, 1, s, <<Way(i, NoGroups)>>)
      [] n.t = "alt" -> Flatten([k \in 1..Len(n.xs) |-> M(n.xs[k], s, i)] \o <<>>, 1, Len(n.xs))
      [] n.t = "grp" -> Bind(M(n.a, s, i), n.name, i)
CatFold(xs, k, s, W) ==
    IF k > Len(xs) \/ W = <<>> THEN W ELSE CatFold(xs, k + 1, s, Step(xs[k], s, W))
Step(n, s, W) ==
    Flatten([w \in 1..Len(W) |-> After(M(n, s, W[w].e), W[w].g)] \o <<>>, 1, Len(W))

\* re.match: the preferred way the pattern matches at offset i, if any
MatchAt(n, s, i) ==
    LET A == M(n, s, i)
    IN IF A = <<>> THEN None ELSE Some([s |-> i, e |-> Head(A).e, g |-> Head(A).g])

\* re.search: the match at the leftmost offset where the pattern matches
Search(n, s) ==
    LET starts == {i \in 0..Len(s) : M(n, s, i) # <<>>}
    IN IF starts = {} THEN None
       ELSE MatchAt(n, s, CHOOSE i \in starts : \A j \in starts : i <= j)

\* str.strip()
Strip(s) ==
    LET lead == RunLength(s, 0, Space)
        last == IF lead = Len(s) THEN lead
                ELSE CHOOSE j \in (lead + 1)..Len(s) :
                        s[j] \notin Space /\ \A k \in (j + 1)..Len(s) : s[k] \in Space
    IN Slice(s, lead, last)

\* re.split(pattern, s)[0]: the text before the leftmost match, or all of s
SplitFirst(n, s) ==
    LET m == Search(n, s)
    IN IF m = None THEN s ELSE Slice(s, 0, m[1].s)

(***************************************************************************)
(* extract_field                                                           *)
(***************************************************************************)
\* f"{keyword}{pattern}" with pattern r":\s*(.*)", searched with re.IGNORECASE
FieldPattern(keyword) ==
    Cat(<<LitI(keyword), In({":"}), Star(Space), Grp("1", Star(NotNewline))>>)

\* r'\s{2,}|[A-Z][a-z]+:' (case-sensitive)
TrailingLabel ==
    Alt(<<Rep(Space, 2, -1), Cat(<<In(Upper), Plus(Lower), In({":"})>>)>>)

\* mutant: the value is not cut at a run of blanks or at a label
CleanValueUncut(captured) == Strip(captured)

\* match.group(1).strip(), then re.split(...)[0].strip()
CleanValue(captured) == Strip(SplitFirst(TrailingLabel, Strip(captured)))

FieldMatch(t, keyword) == Search(FieldPattern(keyword), t)
FieldValue(t, keyword) ==
    LET m == FieldMatch(t, keyword)
    IN CleanValue(Slice(t, m[1].g["1"][1], m[1].g["1"][2]))

\* mutant: the first keyword that matches decides, also when its value is empty
RECURSIVE FieldLoopFirstMatch(_, _, _)
FieldLoopFirstMatch(t, keywords, k) ==
    IF k > Len(keywords) THEN None
    ELSE IF FieldMatch(t, keywords[k]) = None THEN FieldLoopFirstMatch(t, keywords, k + 1)
    ELSE IF FieldValue(t, keywords[k]) # <<>> THEN Some(FieldValue(t, keywords[k]))
    ELSE None

\* the for loop over keywords, from the k-th keyword on
RECURSIVE FieldLoop(_, _, _)
FieldLoop(t, keywords, k) ==
    IF k > Len(keywords) THEN None
    ELSE IF FieldMatch(t, keywords[k]) # None /\ FieldValue(t, keywords[k]) # <<>>
         THEN Some(FieldValue(t, keywords[k]))
         ELSE FieldLoop(t, keywords, k + 1)

extract_field(t, keywords) == FieldLoop(t, keywords, 1)

kwPatientName == <<"P","a","t","i","e","n","t"," ","N","a","m","e">>
kwName == <<"N","a","m","e">>
kwAge == <<"A","g","e">>
kwGender == <<"G","e","n","d","e","r">>
kwSex == <<"S","e","x">>
NameKeywords == <<kwPatientName, kwName>>
AgeKeywords == <<kwAge>>
GenderKeywords == <<kwGender, kwSex>>
KeywordLists == {NameKeywords, AgeKeywords, GenderKeywords}

(***************************************************************************)
(* extract_notes                                                           *)
(***************************************************************************)
kwRx == <<"R","x">>
kwDiagnosis == <<"D","i","a","g","n","o","s","i","s">>
kwNotes == <<"N","o","t","e","s">>
kwAdvice == <<"A","d","v","i","c","e">>
kwMedication == <<"M","e","d","i","c","a","t","i","o","n">>
kwPrescription == <<"P","r","e","s","c","r","i","p","t","i","o","n">>
NotesKeywords == <<kwRx, kwDiagnosis, kwNotes, kwAdvice, kwMedication, kwPrescription>>

mkSignature == <<"S","i","g","n","a","t","u","r","e",":">>
mkDoctor == <<"D","o","c","t","o","r",":">>

\* rf"({keyword}[\s:]+)", searched with re.IGNORECASE
NotesPattern(keyword) ==
    Grp("1", Cat(<<LitI(keyword), Plus(Space \cup {":"})>>))

\* r'\n\s*\n|Signature:|Doctor:' (case-sensitive)
NotesEnd ==
    Alt(<<Cat(<<In({"\n"}), Star(Space), In({"\n"})>>), Lit(mkSignature), Lit(mkDoctor)>>)

\* text[start_index:].strip(), then re.split(..., 1)[0].strip()
NotesBody(t, start_index) == Strip(SplitFirst(NotesEnd, Strip(From(t, start_index))))

\* mutant: only the first keyword of the list that is found is used
LaterStartFirstFound(current_start, start_index) == start_index < 0

\* whether the keyword's match replaces the best guess so far
LaterStart(current_start, start_index) == current_start > start_index

\* the for loop over keywords, from the k-th on, carrying start_index and best_guess
RECURSIVE NotesLoop(_, _, _, _)
NotesLoop(t, k, start_index, best_guess) ==
    IF k > Len(NotesKeywords) THEN best_guess
    ELSE LET m == Search(NotesPattern(NotesKeywords[k]), t)
         IN IF m # None /\ LaterStart(m[1].e, start_index)
            THEN NotesLoop(t, k + 1, m[1].e, Some(NotesBody(t, m[1].e)))
            ELSE NotesLoop(t, k + 1, start_index, best_guess)

\* mutant: without a best guess, the text itself is returned
NotesResultFallback(t, best_guess) ==
    IF best_guess # None /\ best_guess[1] # <<>> THEN best_guess ELSE Some(t)

\* "if best_guess:" is false for None and for the empty string
NotesResult(t, best_guess) ==
    IF best_guess # None /\ best_guess[1] # <<>> THEN best_guess ELSE None

extract_notes(t) == NotesResult(t, NotesLoop(t, 1, -1, None))

(***************************************************************************)
(* extract_date                                                            *)
(***************************************************************************)
MonthAbbr ==
    <<<<"J","a","n">>, <<"F","e","b">>, <<"M","a","r">>,
      <<"A","p","r">>, <<"M","a","y">>, <<"J","u","n">>,
      <<"J","u","l">>, <<"A","u","g">>, <<"S","e","p">>,
      <<"O","c","t">>, <<"N","o","v">>, <<"D","e","c">>>>
MonthFull ==
    <<<<"J","a","n","u","a","r","y">>,
      <<"F","e","b","r","u","a","r","y">>,
      <<"M","a","r","c","h">>,
      <<"A","p","r","i","l">>,
      <<"M","a","y">>,
      <<"J","u","n","e">>,
      <<"J","u","l","y">>,
      <<"A","u","g","u","s","t">>,
      <<"S","e","p","t","e","m","b","e","r">>,
      <<"O","c","t","o","b","e","r">>,
      <<"N","o","v","e","m","b","e","r">>,
      <<"D","e","c","e","m","b","e","r">>>>

LitIAll(names) == [k \in 1..Len(names) |-> LitI(names[k])] \o <<>>

\* (?:Jan|Feb|...|Dec)[a-z]* under re.IGNORECASE
MonthName == Cat(<<Alt(LitIAll(MonthAbbr)), Star(Fold(Lower))>>)

\* the three shapes, in the order of the patterns list
DatePatterns ==
    << Cat(<<Rep(Digit, 1, 2), In({"/", "-"}), Rep(Digit, 1, 2), In({"/", "-"}),
             Rep(Digit, 2, 4)>>),
       Cat(<<Rep(Digit, 1, 2), Plus(Space), MonthName, Plus(Space),
             Rep(Digit, 2, 4)>>),
       Cat(<<MonthName, Plus(Space), Rep(Digit, 1, 2), Opt({","}),
             Plus(Space), Rep(Digit, 2, 4)>>) >>

\* mutant: the month-first numeric templates are tried before the day-first ones
DateFormatsMonthFirst ==
    << <<"%m", "/", "%d", "/", "%Y">>, <<"%m", "-", "%d", "-", "%Y">>,
       <<"%m", "/", "%d", "/", "%y">>, <<"%m", "-", "%d", "-", "%y">>,
       <<"%d", " ", "%b", " ", "%Y">>, <<"%d", " ", "%B", " ", "%Y">>,
       <<"%b", " ", "%d", " ", "%Y">>, <<"%B", " ", "%d", " ", "%Y">>,
       <<"%d", "/", "%m", "/", "%Y">>, <<"%d", "-", "%m", "-", "%Y">>,
       <<"%d", "/", "%m", "/", "%y">>, <<"%d", "-", "%m", "-", "%y">> >>

\* the format templates, in the order they are tried
DateFormats ==
    << <<"%d", "/", "%m", "/", "%Y">>, <<"%d", "-", "%m", "-", "%Y">>,
       <<"%d", "/", "%m", "/", "%y">>, <<"%d", "-", "%m", "-", "%y">>,
       <<"%d", " ", "%b", " ", "%Y">>, <<"%d", " ", "%B", " ", "%Y">>,
       <<"%b", " ", "%d", " ", "%Y">>, <<"%B", " ", "%d", " ", "%Y">>,
       <<"%m", "/", "%d", "/", "%Y">>, <<"%m", "-", "%d", "-", "%Y">>,
       <<"%m", "/", "%d", "/", "%y">>, <<"%m", "-", "%d", "-", "%y">> >>

(* datetime.strptime: the format becomes a regular expression (each directive
   a named group, white space \s+, anything else itself) matched at the start
   of the string under IGNORECASE; the match must use the whole string and
   the fields must make a date, or ValueError is raised (None here). *)
\* %B is tried longest name first, as the library sorts its alternatives
FullByLength == <<9, 2, 11, 12, 1, 10, 8, 3, 4, 6, 7, 5>>

FullNames == [k \in 1..12 |-> MonthFull[FullByLength[k]]] \o <<>>

D19 == In(Digit \ {"0"})
Directive(item) ==
    CASE item = "%d" ->
           Grp("d", Alt(<<Cat(<<In({"3"}), In({"0", "1"})>>),
                          Cat(<<In({"1", "2"}), In(Digit)>>),
                          Cat(<<In({"0"}), D19>>), D19, Cat(<<In({" "}), D19>>)>>))
      [] item = "%m" ->
           Grp("m", Alt(<<Cat(<<In({"1"}), In({"0", "1", "2"})>>),
                          Cat(<<In({"0"}), D19>>), D19>>))
      [] item = "%Y" -> Grp("Y", Rep(Digit, 4, 4))
      [] item = "%y" -> Grp("y", Rep(Digit, 2, 2))
      [] item = "%b" -> Grp("b", Alt(LitIAll(MonthAbbr)))
      [] item = "%B" -> Grp("B", Alt(LitIAll(FullNames)))
      [] item = " " -> Plus(Space)
      [] OTHER -> In({item})

FormatRegex(fmt) == Cat([k \in 1..Len(fmt) |-> Directive(fmt[k])] \o <<>>)
\* the regular expression of each template
FormatRegexes == [k \in 1..Len(DateFormats) |-> FormatRegex(DateFormats[k])] \o <<>>

DigitSeq == <<"0","1","2","3","4","5","6","7","8","9">>
DigitVal(c) == (CHOOSE k \in 1..10 : DigitSeq[k] = c) - 1
\* int() of digits, leading blanks ignored
RECURSIVE ToIntFrom(_, _)
ToIntFrom(s, acc) ==
    IF s = <<>> THEN acc
    ELSE IF Head(s) \in Space THEN ToIntFrom(Tail(s), acc)
    ELSE ToIntFrom(Tail(s), 10 * acc + DigitVal(Head(s)))
ToInt(s) == ToIntFrom(s, 0)

LowerCase(s) == [k \in 1..Len(s) |-> ToLower(s[k])] \o <<>>
\* the number of the month whose name (in names) is s, case ignored
MonthIndex(names, s) == CHOOSE k \in 1..12 : LowerCase(names[k]) = LowerCase(s)

IsLeap(y) == y % 4 = 0 /\ (y % 100 # 0 \/ y % 400 = 0)
DaysIn(y, m) ==
    IF m = 2 THEN (IF IsLeap(y) THEN 29 ELSE 28)
    ELSE IF m \in {4, 6, 9, 11} THEN 30 ELSE 31
\* what datetime.date accepts
ValidDate(y, m, d) == y >= 1 /\ y <= 9999 /\ m \in 1..12 /\ d >= 1 /\ d <= DaysIn(y, m)
\* %y: 69..99 are 1969..1999, 00..68 are 2000..2068
Century(yy) == IF yy <= 68 THEN 2000 + yy ELSE 1900 + yy
Date(y, m, d) == [year |-> y, month |-> m, day |-> d]

Field(s, g, name) == Slice(s, g[name][1], g[name][2])
\* datetime.strptime(s, DateFormats[k])
Strptime(s, k) ==
    LET m == MatchAt(FormatRegexes[k], s, 0)
    IN IF m = None THEN None
       ELSE IF m[1].e # Len(s) THEN None
       ELSE LET g == m[1].g
                year == IF "Y" \in DOMAIN g THEN ToInt(Field(s, g, "Y"))
                        ELSE Century(ToInt(Field(s, g, "y")))
                month == IF "m" \in DOMAIN g THEN ToInt(Field(s, g, "m"))
                         ELSE IF "b" \in DOMAIN g THEN MonthIndex(MonthAbbr, Field(s, g, "b"))
                         ELSE MonthIndex(MonthFull, Field(s, g, "B"))
                day == ToInt(Field(s, g, "d"))
            IN IF ValidDate(year, month, day) THEN Some(Date(year, month, day)) ELSE None

\* the inner loop: the first template, in the order of the list, that parses
\* date_str returns; None when each raised ValueError
FormatLoop(date_str) ==
    LET parsing == {k \in 1..Len(DateFormats) : Strptime(date_str, k) # None}
    IN IF parsing = {} THEN None
       ELSE Strptime(date_str, CHOOSE k \in parsing : \A j \in parsing : k <= j)

\* mutant: the first shape that matches decides, also when no template parses it
RECURSIVE DateLoopFirstShape(_, _)
DateLoopFirstShape(t, k) ==
    IF k > Len(DatePatterns) THEN None
    ELSE LET m == Search(DatePatterns[k], t)
         IN IF m = None THEN DateLoopFirstShape(t, k + 1)
            ELSE FormatLoop(Slice(t, m[1].s, m[1].e))

\* the outer loop over the shapes, from the k-th on
RECURSIVE DateLoop(_, _)
DateLoop(t, k) ==
    IF k > Len(DatePatterns) THEN None
    ELSE LET m == Search(DatePatterns[k], t)
         IN IF m = None THEN DateLoop(t, k + 1)
            ELSE LET d == FormatLoop(Slice(t, m[1].s, m[1].e))
                 IN IF d # None THEN d ELSE DateLoop(t, k + 1)

extract_date(t) == DateLoop(t, 1)

(***************************************************************************)
(* Inputs of the extract_field specification: texts of at most             *)
(* MaxFieldTokens pieces, and the example of the documentation.            *)
(***************************************************************************)
MaxFieldTokens == 4

FieldTokens ==
    { kwGender \o <<":">>, kwSex \o <<":">>, <<"a","g","e",":">>,
      <<" ">>, <<" "," ">>, <<"\n">>, <<"M">> }

RECURSIVE TokenTexts(_, _)
TokenTexts(tokens, n) ==
    IF n = 0 THEN {<<>>}
    ELSE LET shorter == TokenTexts(tokens, n - 1)
         IN shorter \cup {s \o tk : s \in shorter, tk \in tokens}

\* "Name: John Doe   Age: 35   Sex: M"
FieldExample ==
    kwName \o <<":"," ","J","o","h","n"," ","D","o","e"," "," "," ">>
      \o kwAge \o <<":"," ","3","5"," "," "," ">> \o kwSex \o <<":"," ","M">>

FieldTexts == TokenTexts(FieldTokens, MaxFieldTokens) \cup {FieldExample}

(***************************************************************************)
(* Inputs of the extract_notes specification                               *)
(***************************************************************************)
MaxNotesTokens == 4

NotesTokens ==
    { kwRx \o <<":">>, <<"n","o","t","e","s"," ">>, kwAge \o <<":">>, <<"\n">>, <<"B">> }

\* "Diagnosis: Flu", "Rx: Paracetamol 500mg", a blank line, "Signature: Dr. Smith"
NotesExample ==
    kwDiagnosis \o <<":"," ","F","l","u","\n">> \o kwRx
      \o <<":"," ","P","a","r","a","c","e","t","a","m","o","l"," ","5","0","0","m","g">>
      \o <<"\n","\n">> \o mkSignature \o <<" ","D","r","."," ","S","m","i","t","h">>

\* the same sections in the other order, ended by the Doctor: marker
NotesExample2 ==
    kwRx \o <<":"," ","A","\n">> \o kwAdvice \o <<" ","r","e","s","t"," ">>
      \o mkDoctor \o <<" ","S","m","i","t","h">>

NotesTexts == TokenTexts(NotesTokens, MaxNotesTokens) \cup {NotesExample, NotesExample2}

(***************************************************************************)
(* Inputs of the extract_date specification: a written date (the main      *)
(* part), possibly beside a second one, after some filler words.           *)
(***************************************************************************)
MaxFiller == 1

Numeric(a, sep1, b, sep2, y) ==
    [kind |-> "numeric", a |-> a, sep1 |-> sep1, b |-> b, sep2 |-> sep2, y |-> y]
DayMonthYear(d, name, y) == [kind |-> "dmy", d |-> d, name |-> name, y |-> y]
MonthDayYear(name, d, comma, y) ==
    [kind |-> "mdy", name |-> name, d |-> d, comma |-> comma, y |-> y]

NumberTexts == {<<"1">>, <<"0","4">>, <<"1","2">>, <<"3","1">>, <<"2">>, <<"2","9">>}
YearTexts == {<<"2","0","2","5">>, <<"2","0","2","4">>, <<"2","5">>, <<"2","0","2">>}
NameTexts ==
    {<<"A","p","r">>, <<"A","p","r","i","l">>, <<"s","e","p","t">>, <<"F","e","b">>,
     <<"M","A","Y">>}
Separators == {<<"/", "/">>, <<"-", "-">>, <<"/", "-">>}

Plain(words) == [kind |-> "plain", words |-> words]

\* "01/04/2025", the date of the documentation's example
DateExample == Numeric(<<"0","1">>, "/", <<"0","4">>, "/", <<"2","0","2","5">>)

MainParts ==
    {DateExample, Plain(<<"1","2","/","2","0","2","5">>), Plain(<<"A","p","r","i","l">>)}
    \cup {Numeric(a, sp[1], b, sp[2], y) :
        a \in NumberTexts, sp \in Separators, b \in NumberTexts, y \in YearTexts}
    \cup {DayMonthYear(d, n, y) :
        d \in {<<"1">>, <<"3","1">>, <<"2","9">>}, n \in NameTexts,
        y \in {<<"2","0","2","5">>, <<"2","0","2","4">>, <<"2","5">>}}
    \cup {MonthDayYear(n, d, c, y) :
        n \in NameTexts, d \in {<<"1">>, <<"3","1">>, <<"2","9">>}, c \in BOOLEAN,
        y \in {<<"2","0","2","5">>, <<"2","0","2","4">>, <<"2","5">>}}

OtherParts ==
    { Numeric(<<"9","9">>, "/", <<"9","9">>, "/", <<"9","9">>),
      Numeric(<<"3","1">>, "/", <<"1","2">>, "/", <<"9","9">>),
      DayMonthYear(<<"1">>, <<"A","p","r","i","l">>, <<"2","0","2","5">>),
      MonthDayYear(<<"F","e","b">>, <<"2">>, TRUE, <<"2","0","2","4">>),
      MonthDayYear(<<"M","a","y">>, <<"5">>, FALSE, <<"2","0","2","5">>) }

PartText(p) ==
    CASE p.kind = "numeric" -> p.a \o <<p.sep1>> \o p.b \o <<p.sep2>> \o p.y
      [] p.kind = "plain" -> p.words
      [] p.kind = "dmy" -> p.d \o <<" ">> \o p.name \o <<" ">> \o p.y
      [] p.kind = "mdy" ->
           p.name \o <<" ">> \o p.d \o (IF p.comma THEN <<",">> ELSE <<>>) \o <<" ">> \o p.y

FillerWord == <<"D","a","t","e",":"," ">>
RECURSIVE Filler(_)
Filler(n) == IF n = 0 THEN <<>> ELSE FillerWord \o Filler(n - 1)

\* where: "alone", or the other part stands "before" or "after" the main part
DateInputs ==
    {[filler |-> f, main |-> p, where |-> "alone", other |-> p] :
        f \in 0..MaxFiller, p \in MainParts}
    \cup {[filler |-> f, main |-> p, where |-> w, other |-> o] :
        f \in 0..MaxFiller, p \in MainParts, w \in {"before", "after"}, o \in OtherParts}

Render(in) ==
    Filler(in.filler)
      \o (IF in.where = "before" THEN PartText(in.other) \o <<" ">> ELSE <<>>)
      \o PartText(in.main)
      \o (IF in.where = "after" THEN <<" ">> \o PartText(in.other) ELSE <<>>)

NoResult == [keywords |-> <<>>, field |-> None, date |-> None, notes |-> None]

IdleRequest ==
    /\ pc = "idle" /\ req = <<>> /\ rec = <<>> /\ attempted = {}
    /\ raised = None /\ response = None /\ db = {} /\ nextId = 0
    /\ storeCalls = 0 /\ served = 0 /\ returned = <<>>

InitField ==
    /\ given = <<>>
    /\ text \in FieldTexts
    /\ called = {}
    /\ result = NoResult
    /\ IdleRequest

CallExtractField ==
    /\ "extract_field" \notin called
    /\ \E keywords \in KeywordLists :
         result' = [result EXCEPT !.keywords = keywords,
                                  !.field = extract_field(text, keywords)]
    /\ called' = called \cup {"extract_field"}
    /\ UNCHANGED <<given, text, requestVars>>

InitNotes ==
    /\ given = <<>>
    /\ text \in NotesTexts
    /\ called = {}
    /\ result = NoResult
    /\ IdleRequest

CallExtractNotes ==
    /\ "extract_notes" \notin called
    /\ result' = [result EXCEPT !.notes = extract_notes(text)]
    /\ called' = called \cup {"extract_notes"}
    /\ UNCHANGED <<given, text, requestVars>>

NextNotes == CallExtractNotes \/ CallExtractField

SpecNotes == InitNotes /\ [][NextNotes]_vars

InitDate ==
    /\ given \in DateInputs
    /\ text = Render(given)
    /\ called = {}
    /\ result = NoResult
    /\ IdleRequest

CallExtractDate ==
    /\ "extract_date" \notin called
    /\ result' = [result EXCEPT !.date = extract_date(text)]
    /\ called' = called \cup {"extract_date"}
    /\ UNCHANGED <<given, text, requestVars>>

NextDate == CallExtractDate

SpecDate == InitDate /\ [][NextDate]_vars

NextField == CallExtractField

SpecField == InitField /\ [][NextField]_vars

(***************************************************************************)
(* The upload request: get_api_key, upload_prescription,                   *)
(* process_prescription_image and save_prescription_data.  In Spec the     *)
(* variable given holds the configuration the modules were loaded with.    *)
(***************************************************************************)
MaxRequests == 2

\* the names bound at module level of ocr_processor.py
OcrModuleNames ==
    {"pytesseract", "Image", "io", "re", "datetime", "Union", "logging",
     "PrescriptionData", "logger", "extract_field", "extract_date",
     "extract_notes", "process_prescription_image"}

\* raise <name>(...): the named exception when the name resolves, NameError otherwise
Raise(name, status, detail) ==
    IF name \in OcrModuleNames
    THEN [kind |-> name, status |-> status, detail |-> detail]
    ELSE [kind |-> "NameError", status |-> 0, detail |-> name]

\* "Error during OCR processing."
Placeholder ==
    <<"E","r","r","o","r"," ","d","u","r","i","n","g"," ","O","C","R"," ",
      "p","r","o","c","e","s","s","i","n","g",".">>

\* v or d, for an optional string v: None and the empty string are both false
OrElse(v, d) == IF v = None \/ v = Some(<<>>) THEN Some(d) ELSE v

\* mutant: the default patient_id is made once, when the class is defined
PrescriptionDataSharedId(id) ==
    [patient_id |-> 1, name |-> None, age |-> None, gender |-> None,
     visit_date |-> None, doctor_notes |-> None, raw_ocr_text |-> None]

\* PrescriptionData(): the default factory makes the patient_id, the id-th value
\* of uuid4; every other field None
PrescriptionData(id) ==
    [patient_id |-> id, name |-> None, age |-> None, gender |-> None,
     visit_date |-> None, doctor_notes |-> None, raw_ocr_text |-> None]

\* the fields in the order process_prescription_image extracts them
Extractors == <<"name", "age", "gender", "visit_date", "doctor_notes">>
ExtractorSet == {Extractors[k] : k \in 1..Len(Extractors)}

RunExtractor(field, t) ==
    CASE field = "name" -> extract_field(t, NameKeywords)
      [] field = "age" -> extract_field(t, AgeKeywords)
      [] field = "gender" -> extract_field(t, GenderKeywords)
      [] field = "visit_date" -> extract_date(t)
      [] field = "doctor_notes" -> extract_notes(t)

\* "Patient Name: John Doe Age: 35 Sex: M Date: 01/04/2025 Rx Paracetamol 500mg"
RecordExample ==
    kwPatientName \o <<":"," ","J","o","h","n"," ","D","o","e"," ">>
      \o kwAge \o <<":"," ","3","5"," ">> \o kwSex \o <<":"," ","M"," ">>
      \o <<"D","a","t","e",":"," ","0","1","/","0","4","/","2","0","2","5"," ">>
      \o kwRx \o <<" ","P","a","r","a","c","e","t","a","m","o","l"," ","5","0","0","m","g">>

\* the texts the OCR engine returns: the empty text and the example record
OcrTexts ==
    { <<>>,
      RecordExample }

\* the outcomes of Image.open and pytesseract.image_to_string
OcrOutcomes ==
    {[kind |-> k, text |-> <<>>] : k \in {"image_error", "engine_missing", "ocr_error"}}
    \cup {[kind |-> "text", text |-> t] : t \in OcrTexts}

\* the except Exception branch: keep the text captured so far, or the placeholder
Recovered(data) == [data EXCEPT !.raw_ocr_text = OrElse(@, Placeholder)]

\* str(date): the ISO form YYYY-MM-DD
Digits(n, width) ==
    [k \in 1..width |-> DigitSeq[((n \div (10 ^ (width - k))) % 10) + 1]] \o <<>>
DateStr(d) == Digits(d.year, 4) \o <<"-">> \o Digits(d.month, 2) \o <<"-">> \o Digits(d.day, 2)

\* data.dict() with the visit date, when there is one, as a string
DataDict(data) ==
    IF data.visit_date = None THEN data
    ELSE [data EXCEPT !.visit_date = Some(DateStr(data.visit_date[1]))]

\* the date field of PrescriptionData(**saved_record): an ISO string is parsed
ParseDate(v) ==
    IF v = None THEN None
    ELSE Some(Date(ToInt(SubSeq(v[1], 1, 4)), ToInt(SubSeq(v[1], 6, 7)),
                   ToInt(SubSeq(v[1], 9, 10))))
FromRow(row) == [row EXCEPT !.visit_date = ParseDate(@)]

Configurations == [api_key : {None, Some("secret")}, supabase : BOOLEAN]
Headers == {None, Some("secret"), Some("guess")}
Bodies == {"unreadable", "empty", "image"}
StoreOutcomes == {"stored", "error", "no_row", "exception"}
Endpoints == {"upload_prescription", "get_patient_data"}
LookupOutcomes == {"answered", "exception"}

\* PatientDataResponse(**patient_record): the six fields the model declares, the
\* visit date parsed; other keys of the row are ignored
PatientDataResponse(row) ==
    [patient_id |-> row.patient_id, name |-> row.name, age |-> row.age,
     gender |-> row.gender, visit_date |-> ParseDate(row.visit_date),
     doctor_notes |-> row.doctor_notes]

HTTPError(status, detail, branch) ==
    Some([status |-> status, detail |-> detail, branch |-> branch,
          patient_id |-> 0, extracted_data |-> None])

Init ==
    /\ given \in Configurations
    /\ text = <<>>
    /\ called = {}
    /\ result = NoResult
    /\ IdleRequest

\* get_api_key, the dependency of the endpoint
GetApiKey ==
    /\ pc = "idle"
    /\ served < MaxRequests
    /\ \E header \in Headers, endpoint \in Endpoints, id \in 1..(nextId + 1) :
         /\ endpoint = "upload_prescription" => id = nextId + 1
         /\ req' = [header |-> header, body |-> "", ocr |-> "", faults |-> {},
                    store |-> "", endpoint |-> endpoint, patient_id |-> id]
         /\ IF given.api_key = None
            THEN /\ response' = HTTPError(500, "API Key not configured on the server.",
                                          "get_api_key")
                 /\ pc' = "done"
            ELSE IF header = given.api_key
            THEN /\ response' = None
                 /\ pc' = IF endpoint = "upload_prescription" THEN "read" ELSE "lookup"
            ELSE /\ response' = HTTPError(403, "Could not validate credentials",
                                          "get_api_key")
                 /\ pc' = "done"
    /\ UNCHANGED <<extractorVars, rec, attempted, raised, db, nextId, storeCalls, served,
                   returned>>

\* mutant: an empty body is not rejected
ReadFileAnyBody ==
    /\ pc = "read"
    /\ \E body \in Bodies :
         /\ req' = [req EXCEPT !.body = body]
         /\ IF body # "unreadable"
            THEN /\ response' = None
                 /\ pc' = "ocr"
            ELSE /\ response' = HTTPError(400, "Error reading file", "read")
                 /\ pc' = "done"
    /\ UNCHANGED <<extractorVars, rec, attempted, raised, db, nextId, storeCalls, served,
                   returned>>

\* upload_prescription: reading the uploaded file
ReadFile ==
    /\ pc = "read"
    /\ \E body \in Bodies :
         /\ req' = [req EXCEPT !.body = body]
         /\ IF body = "image"
            THEN /\ response' = None
                 /\ pc' = "ocr"
            ELSE /\ response' = HTTPError(400, "Error reading file", "read")
                 /\ pc' = "done"
    /\ UNCHANGED <<extractorVars, rec, attempted, raised, db, nextId, storeCalls, served,
                   returned>>

\* process_prescription_image up to the OCR text: a fresh record, Image.open,
\* image_to_string, and the two except branches for their errors
RunOcr ==
    /\ pc = "ocr"
    /\ nextId' = nextId + 1
    /\ \E outcome \in OcrOutcomes :
         LET extracted_data == PrescriptionData(nextId + 1)
         IN /\ req' = [req EXCEPT !.ocr = outcome.kind]
            /\ text' = outcome.text
            /\ CASE outcome.kind \in {"image_error", "ocr_error"} ->
                      /\ rec' = Some(Recovered(extracted_data))
                      /\ raised' = None
                      /\ pc' = "processed"
                 [] outcome.kind = "engine_missing" ->
                      /\ rec' = None
                      /\ raised' = Some(Raise("HTTPException", 500,
                                              "OCR processing failed: Tesseract not found."))
                      /\ pc' = "processed"
                 [] outcome.kind = "text" ->
                      /\ rec' = Some([extracted_data EXCEPT
                                         !.raw_ocr_text = Some(outcome.text)])
                      /\ raised' = None
                      /\ pc' = "extract"
    /\ UNCHANGED <<given, called, result, attempted, response, db, storeCalls, served,
                   returned>>

\* process_prescription_image: the next of the five extraction statements, all in
\* the one try block: an extractor that raises ends the block in the except branch
ExtractNext ==
    /\ pc = "extract"
    /\ LET k == Cardinality(attempted) + 1
           field == Extractors[k]
       IN /\ attempted' = attempted \cup {field}
          /\ \E fault \in BOOLEAN :
               IF fault
               THEN /\ req' = [req EXCEPT !.faults = @ \cup {field}]
                    /\ rec' = Some(Recovered(rec[1]))
                    /\ pc' = "processed"
               ELSE /\ req' = req
                    /\ rec' = [rec EXCEPT ![1][field] = RunExtractor(field, text)]
                    /\ pc' = IF k = Len(Extractors) THEN "processed" ELSE "extract"
    /\ UNCHANGED <<given, text, called, result, raised, response, db, nextId, storeCalls,
                   served, returned>>

\* upload_prescription: the except clauses around that call
HandleOcr ==
    /\ pc = "processed"
    /\ IF raised = None
       THEN /\ response' = None
            /\ returned' = Append(returned, [ocr |-> req.ocr, text |-> text,
                                             faults |-> req.faults, data |-> rec[1]])
            /\ pc' = "save"
       ELSE IF raised[1].kind = "HTTPException"
       THEN /\ response' = HTTPError(raised[1].status, raised[1].detail, "HTTPException")
            /\ returned' = returned
            /\ pc' = "done"
       ELSE /\ response' = HTTPError(500, "Error processing image", "Exception")
            /\ returned' = returned
            /\ pc' = "done"
    /\ UNCHANGED <<extractorVars, req, rec, attempted, raised, db, nextId, storeCalls,
                   served>>

\* upload_prescription: save_prescription_data and the response built from it
SaveData ==
    /\ pc = "save"
    /\ IF ~given.supabase
       THEN /\ req' = [req EXCEPT !.store = "uninitialised"]
            /\ response' = [HTTPError(500, "Data extracted but failed to save to database",
                                      "save")
                              EXCEPT ![1].patient_id = rec[1].patient_id]
            /\ UNCHANGED <<db, storeCalls>>
       ELSE \E outcome \in StoreOutcomes :
            /\ req' = [req EXCEPT !.store = outcome]
            /\ storeCalls' = storeCalls + 1
            /\ IF outcome = "stored"
               THEN /\ db' = db \cup {DataDict(rec[1])}
                    /\ response' =
                         Some([status |-> 201,
                               detail |-> "Prescription uploaded and processed successfully.",
                               branch |-> "created",
                               patient_id |-> DataDict(rec[1]).patient_id,
                               extracted_data |-> Some(FromRow(DataDict(rec[1])))])
               ELSE /\ db' = db
                    /\ response' =
                         [HTTPError(500, "Data extracted but failed to save to database",
                                    "save")
                            EXCEPT ![1].patient_id = rec[1].patient_id]
    /\ pc' = "done"
    /\ UNCHANGED <<extractorVars, rec, attempted, raised, nextId, served, returned>>

\* get_patient_data: get_patient_data_from_db and the response built from the row
LookupPatient ==
    /\ pc = "lookup"
    /\ IF ~given.supabase
       THEN /\ req' = [req EXCEPT !.store = "uninitialised"]
            /\ response' = HTTPError(500, "Database error", "lookup")
       ELSE \E outcome \in LookupOutcomes :
            LET rows == {row \in db : row.patient_id = req.patient_id}
            IN /\ req' = [req EXCEPT !.store = outcome]
               /\ IF outcome = "exception"
                  THEN response' = HTTPError(500, "Database error", "lookup")
                  ELSE IF rows = {}
                  THEN response' = HTTPError(404, "Patient data not found", "lookup")
                  ELSE \E row \in rows :
                       response' =
                           Some([status |-> 200, detail |-> "", branch |-> "found",
                                 patient_id |-> row.patient_id,
                                 extracted_data |-> Some(PatientDataResponse(row))])
    /\ pc' = "done"
    /\ UNCHANGED <<extractorVars, rec, attempted, raised, db, nextId, storeCalls, served,
                   returned>>

\* the response is sent; the server waits for the next request
Respond ==
    /\ pc = "done"
    /\ pc' = "idle"
    /\ served' = served + 1
    /\ req' = <<>> /\ rec' = <<>> /\ attempted' = {} /\ raised' = None
    /\ response' = None /\ storeCalls' = 0
    /\ text' = <<>>
    /\ UNCHANGED <<given, called, result, db, nextId, returned>>

Next ==
    GetApiKey \/ ReadFile \/ RunOcr \/ ExtractNext \/ HandleOcr \/ SaveData
      \/ LookupPatient \/ Respond

Spec == Init /\ [][Next]_vars

(***************************************************************************)
(* What the documentation says of a text, stated on the characters and     *)
(* independent of the regular expressions above.                           *)
(***************************************************************************)
\* keyword kw stands at offset i of t, letter case ignored
OccursAt(t, kw, i) ==
    /\ i + Len(kw) <= Len(t)
    /\ \A k \in 1..Len(kw) : ToLower(t[i + k]) = ToLower(kw[k])
Occurs(t, kw) == \E i \in 0..Len(t) : OccursAt(t, kw, i)

\* the least element of a non-empty set of numbers
Least(S) == CHOOSE x \in S : \A y \in S : x <= y
Greatest(S) == CHOOSE x \in S : \A y \in S : x >= y

\* the first offset from i on that holds no character of S
SkipAll(t, i, S) == Least({j \in i..Len(t) : j = Len(t) \/ t[j + 1] \notin S})

Trimmed(s) ==
    LET solid == {k \in 1..Len(s) : s[k] \notin Space}
    IN IF solid = {} THEN <<>> ELSE SubSeq(s, Least(solid), Greatest(solid))

\* kw followed by a colon
LabelAt(t, kw, i) ==
    OccursAt(t, kw, i) /\ i + Len(kw) < Len(t) /\ t[i + Len(kw) + 1] = ":"
Labelled(t, kw) == \E i \in 0..Len(t) : LabelAt(t, kw, i)

\* the text after the first "kw:" and the blanks behind it, to the end of the line
Captured(t, kw) ==
    LET colon == Least({i \in 0..Len(t) : LabelAt(t, kw, i)}) + Len(kw) + 1
        start == SkipAll(t, colon, Space)
    IN Slice(t, start, SkipAll(t, start, NotNewline))

\* a run of two blanks, or a "Capitalized:" label, starts at offset p of c
RunAt(c, p) == p + 2 <= Len(c) /\ c[p + 1] \in Space /\ c[p + 2] \in Space
CapLabelAt(c, p) ==
    /\ p + 3 <= Len(c)
    /\ c[p + 1] \in Upper
    /\ \E q \in (p + 3)..Len(c) : c[q] = ":" /\ \A k \in (p + 2)..(q - 1) : c[k] \in Lower
CutAt(c, p) == RunAt(c, p) \/ CapLabelAt(c, p)

\* the captured text, trimmed, cut at the first run or label, trimmed again
PostProcessed(t, kw) ==
    LET c == Trimmed(Captured(t, kw))
    IN Trimmed(Slice(c, 0, Least({p \in 0..Len(c) : p = Len(c) \/ CutAt(c, p)})))

FieldCalled == "extract_field" \in called

(***************************************************************************)
(* C8 (as stated): the first keyword, in list order, whose pattern matches *)
(* the text decides the result of extract_field: the result is that        *)
(* keyword's post-processed value, or absent when that value is empty, and *)
(* a later keyword never supplies the result.                              *)
(***************************************************************************)
C8_FirstMatchingKeywordDecides ==
    FieldCalled =>
        LET kws == result.keywords
            matching == {k \in 1..Len(kws) : Labelled(text, kws[k])}
        IN IF matching = {} THEN result.field = None
           ELSE LET v == PostProcessed(text, kws[Least(matching)])
                IN result.field = (IF v = <<>> THEN None ELSE Some(v))

(***************************************************************************)
(* C8 (amended): the result of extract_field is the post-processed value   *)
(* of the first keyword, in list order, whose pattern matches the text and *)
(* whose post-processed value is not empty; a keyword that matches with an *)
(* empty value is skipped and the later keywords are tried; the result is  *)
(* absent only when no keyword yields a non-empty value.                   *)
(***************************************************************************)
C8_FirstNonEmptyKeywordDecides ==
    FieldCalled =>
        LET kws == result.keywords
            yielding == {k \in 1..Len(kws) :
                           Labelled(text, kws[k]) /\ PostProcessed(text, kws[k]) # <<>>}
        IN IF yielding = {} THEN result.field = None
           ELSE result.field = Some(PostProcessed(text, kws[Least(yielding)]))

\* the first keyword matched with an empty value and the second one gave the result
C8_Witness ==
    /\ FieldCalled
    /\ Len(result.keywords) = 2
    /\ Labelled(text, result.keywords[1])
    /\ PostProcessed(text, result.keywords[1]) = <<>>
    /\ result.field # None

(***************************************************************************)
(* C9: every value extract_field returns is non-empty, has no blank at its *)
(* start or end, holds no run of two or more blanks and no "Capitalized:"  *)
(* label; it is the captured text of one of the keywords cut at the first  *)
(* such run or label; the documentation's example yields "35".             *)
(***************************************************************************)
C9_ValueIsCleanCut ==
    FieldCalled /\ result.field # None =>
        LET v == result.field[1]
        IN /\ v # <<>>
           /\ v[1] \notin Space /\ v[Len(v)] \notin Space
           /\ \A p \in 0..Len(v) : ~CutAt(v, p)
           /\ \E k \in 1..Len(result.keywords) :
                 /\ Labelled(text, result.keywords[k])
                 /\ v = PostProcessed(text, result.keywords[k])
           /\ (text = FieldExample /\ result.keywords = AgeKeywords => v = <<"3", "5">>)

\* the example: "35" is returned, cut before "   Sex: M"
C9_Witness ==
    /\ FieldCalled
    /\ text = FieldExample
    /\ result.keywords = AgeKeywords
    /\ result.field = Some(<<"3", "5">>)

(***************************************************************************)
(* extract_notes, as the documentation describes it                        *)
(***************************************************************************)
Separator == Space \cup {":"}
\* kw followed by a colon or a blank stands at offset i
HeaderAt(t, kw, i) ==
    OccursAt(t, kw, i) /\ i + Len(kw) < Len(t) /\ t[i + Len(kw) + 1] \in Separator
\* where the header at offset i ends: behind the keyword and its separators
HeaderEnd(t, kw, i) == SkipAll(t, i + Len(kw), Separator)

KeywordSet == {NotesKeywords[k] : k \in 1..Len(NotesKeywords)}
FoundKeywords(t) == {kw \in KeywordSet : \E i \in 0..Len(t) : HeaderAt(t, kw, i)}
\* the ends of all headers / of the first header of each keyword
AllHeaderEnds(t) ==
    {HeaderEnd(t, h[1], h[2]) :
        h \in {x \in KeywordSet \X (0..Len(t)) : HeaderAt(t, x[1], x[2])}}
FirstHeaderEnds(t) ==
    {HeaderEnd(t, kw, Least({j \in 0..Len(t) : HeaderAt(t, kw, j)})) : kw \in FoundKeywords(t)}

\* a blank line, or one of the two markers, starts at offset p of c
BlankLineAt(c, p) ==
    /\ p + 2 <= Len(c)
    /\ c[p + 1] = "\n"
    /\ \E q \in (p + 2)..Len(c) : c[q] = "\n" /\ \A k \in (p + 2)..(q - 1) : c[k] \in Space
MarkerAt(c, p) ==
    \E mk \in {mkSignature, mkDoctor} :
        p + Len(mk) <= Len(c) /\ \A k \in 1..Len(mk) : c[p + k] = mk[k]
BodyEndsAt(c, p) == BlankLineAt(c, p) \/ MarkerAt(c, p)

\* the text after offset e, trimmed, cut at the first blank line or marker
BodyAfter(t, e) ==
    LET c == Trimmed(From(t, e))
    IN Trimmed(Slice(c, 0, Least({p \in 0..Len(c) : p = Len(c) \/ BodyEndsAt(c, p)})))
\* an empty body is no notes
NotesFrom(t, ends) ==
    IF ends = {} \/ BodyAfter(t, Greatest(ends)) = <<>> THEN None
    ELSE Some(BodyAfter(t, Greatest(ends)))

NotesCalled == "extract_notes" \in called
ParacetamolNote == <<"P","a","r","a","c","e","t","a","m","o","l"," ","5","0","0","m","g">>

(***************************************************************************)
(* C7 (as stated): extract_notes returns the text after the header that    *)
(* ends at the highest offset among ALL occurrences of the six keywords,   *)
(* repeated occurrences of one keyword included.                           *)
(***************************************************************************)
C7_LastOfAllOccurrences ==
    NotesCalled =>
        /\ result.notes = NotesFrom(text, AllHeaderEnds(text))
        /\ (text = NotesExample => result.notes = Some(ParacetamolNote))

(***************************************************************************)
(* C7 (amended): extract_notes returns the text after the header that ends *)
(* at the highest offset among the FIRST occurrences of each of the six    *)
(* keywords (a repeated occurrence of a keyword is never considered), cut  *)
(* at the first blank line or marker; the documentation's example yields   *)
(* "Paracetamol 500mg".                                                    *)
(***************************************************************************)
C7_LastOfFirstOccurrences ==
    NotesCalled =>
        /\ result.notes = NotesFrom(text, FirstHeaderEnds(text))
        /\ (text = NotesExample => result.notes = Some(ParacetamolNote))

\* a keyword is repeated behind the chosen header, and notes are returned
C7_Witness ==
    /\ NotesCalled
    /\ Cardinality(FoundKeywords(text)) >= 2
    /\ Greatest(AllHeaderEnds(text)) > Greatest(FirstHeaderEnds(text))
    /\ result.notes # None

(***************************************************************************)
(* C10: when none of the keywords handed to extract_field occurs in the    *)
(* text (letter case ignored) extract_field returns absent, and when none  *)
(* of the six keywords of extract_notes is found extract_notes returns     *)
(* absent: never an empty string, never a piece of the text.               *)
(***************************************************************************)
C10_AbsentWithoutKeyword ==
    /\ (FieldCalled /\ (\A k \in 1..Len(result.keywords) : ~Occurs(text, result.keywords[k]))
          => result.field = None)
    /\ (NotesCalled /\ FoundKeywords(text) = {} => result.notes = None)
    /\ result.field # Some(<<>>) /\ result.notes # Some(<<>>)

\* both extractors were applied to a non-empty text without any of their keywords
C10_Witness ==
    /\ FieldCalled /\ NotesCalled
    /\ text # <<>>
    /\ \A k \in 1..Len(result.keywords) : ~Occurs(text, result.keywords[k])
    /\ FoundKeywords(text) = {}
    /\ result.field = None /\ result.notes = None

(***************************************************************************)
(* extract_date, as the documentation describes it, stated on the written  *)
(* date the text was rendered from                                         *)
(***************************************************************************)
DateCalled == "extract_date" \in called

\* the months a name denotes: an abbreviated or a full month name, case ignored
MonthsNamed(name) ==
    {k \in 1..12 : LowerCase(name) \in {LowerCase(MonthAbbr[k]), LowerCase(MonthFull[k])}}
YearOf(y) == IF Len(y) = 2 THEN Century(ToInt(y)) ELSE ToInt(y)

\* the date a part denotes when it is an instance of a supported shape
\* (numeric parts are read day-first), None otherwise
Denoted(p) ==
    CASE p.kind = "numeric" ->
           IF p.sep1 = p.sep2 /\ Len(p.y) \in {2, 4}
              /\ ValidDate(YearOf(p.y), ToInt(p.b), ToInt(p.a))
           THEN Some(Date(YearOf(p.y), ToInt(p.b), ToInt(p.a))) ELSE None
      [] p.kind \in {"dmy", "mdy"} ->
           IF MonthsNamed(p.name) # {} /\ Len(p.y) = 4
              /\ ValidDate(ToInt(p.y), Least(MonthsNamed(p.name)), ToInt(p.d))
           THEN Some(Date(ToInt(p.y), Least(MonthsNamed(p.name)), ToInt(p.d))) ELSE None
      [] OTHER -> None

\* the month-first reading of a numeric part, None when it is no date
MonthFirst(p) ==
    IF p.kind = "numeric" /\ p.sep1 = p.sep2 /\ Len(p.y) \in {2, 4}
       /\ ValidDate(YearOf(p.y), ToInt(p.a), ToInt(p.b))
    THEN Some(Date(YearOf(p.y), ToInt(p.a), ToInt(p.b))) ELSE None

\* what the format templates make of a part: no template has a comma
Parsed(p) ==
    CASE p.kind = "numeric" -> IF Denoted(p) # None THEN Denoted(p) ELSE MonthFirst(p)
      [] p.kind = "dmy" -> Denoted(p)
      [] p.kind = "mdy" -> IF p.comma THEN None ELSE Denoted(p)
      [] OTHER -> None

ShapeOf(p) ==
    CASE p.kind = "numeric" -> 1 [] p.kind = "dmy" -> 2 [] p.kind = "mdy" -> 3 [] OTHER -> 0
Parts(in) ==
    CASE in.where = "alone" -> <<in.main>>
      [] in.where = "before" -> <<in.other, in.main>>
      [] in.where = "after" -> <<in.main, in.other>>
ShapesIn(in) == {ShapeOf(Parts(in)[k]) : k \in 1..Len(Parts(in))} \ {0}
\* the leftmost part of a shape: the candidate the shape's search finds
Candidate(in, shape) ==
    Parts(in)[Least({k \in 1..Len(Parts(in)) : ShapeOf(Parts(in)[k]) = shape})]

(***************************************************************************)
(* C4: for each supported shape, a text with exactly one instance of it,   *)
(* denoting a valid calendar date, makes extract_date return that date     *)
(* (numeric shapes read day-first, named shapes with a four-digit year,    *)
(* "month day, year" with or without the comma), never absent.             *)
(***************************************************************************)
C4_EverySupportedShapeParsed ==
    DateCalled /\ given.where = "alone" /\ Denoted(given.main) # None
        => result.date = Denoted(given.main)

(***************************************************************************)
(* C5: a numeric candidate that is a date both day-first and month-first   *)
(* is returned day-first ("Date: 01/04/2025" is 2025-04-01); the           *)
(* month-first reading is returned only when the candidate is no date      *)
(* day-first.                                                              *)
(***************************************************************************)
\* the main part is the leftmost numeric part: the candidate of the first shape
MainIsNumericCandidate ==
    /\ given.main.kind = "numeric"
    /\ given.where = "before" => given.other.kind # "numeric"

C5_DayFirstBeforeMonthFirst ==
    DateCalled /\ MainIsNumericCandidate =>
        /\ (Denoted(given.main) # None /\ MonthFirst(given.main) # None
              => result.date = Denoted(given.main))
        /\ (result.date = MonthFirst(given.main) /\ MonthFirst(given.main) # Denoted(given.main)
              => Denoted(given.main) = None)
        /\ (given.main = DateExample => result.date = Some(Date(2025, 4, 1)))

\* "Date: 01/04/2025": both readings are dates, the day-first one is returned
C5_Witness ==
    /\ DateCalled
    /\ given.main = DateExample /\ given.filler = 1 /\ given.where = "alone"
    /\ MonthFirst(given.main) = Some(Date(2025, 1, 4))
    /\ result.date = Some(Date(2025, 4, 1))

(***************************************************************************)
(* C6 (as stated): extract_date returns absent if no shape matches the     *)
(* text, and the highest-priority shape that matches decides: its          *)
(* candidate is parsed or the result is absent; lower-priority shapes do   *)
(* not then supply a date.                                                 *)
(***************************************************************************)
C6_HighestShapeDecides ==
    DateCalled =>
        IF ShapesIn(given) = {} THEN result.date = None
        ELSE result.date = Parsed(Candidate(given, Least(ShapesIn(given))))

(***************************************************************************)
(* C6 (amended): extract_date returns absent if no shape matches the text  *)
(* or if the candidate of every shape that matches is parsed by none of    *)
(* the templates; otherwise the shapes are tried in their fixed order and  *)
(* the first shape whose candidate parses supplies the date, also after a  *)
(* higher-priority shape matched a candidate that did not parse.           *)
(***************************************************************************)
C6_FirstParsingShapeDecides ==
    DateCalled =>
        LET parsing == {k \in ShapesIn(given) : Parsed(Candidate(given, k)) # None}
        IN IF parsing = {} THEN result.date = None
           ELSE result.date = Parsed(Candidate(given, Least(parsing)))

\* the highest-priority shape's candidate did not parse and a lower shape gave the date
C6_Witness ==
    /\ DateCalled
    /\ ShapesIn(given) # {}
    /\ Parsed(Candidate(given, Least(ShapesIn(given)))) = None
    /\ result.date # None

(***************************************************************************)
(* process_prescription_image, as the documentation describes it           *)
(***************************************************************************)
\* process_prescription_image has returned or raised, the caller has not yet reacted
Processed == pc = "processed"
OcrGaveText == Processed /\ req.ocr = "text"

(***************************************************************************)
(* C1: the five field extractions are independent: whichever extractors    *)
(* fault or return absent, a record is returned, every other extractor was *)
(* attempted and its result is stored in the record.                       *)
(***************************************************************************)
C1_ExtractionsIndependent ==
    OcrGaveText =>
        /\ rec # None
        /\ \A field \in ExtractorSet \ req.faults :
              /\ field \in attempted
              /\ rec[1][field] = RunExtractor(field, text)

(***************************************************************************)
(* C2: when OCR returned a text, the empty text included, the returned     *)
(* record has exactly that text as raw_ocr_text, also when an extraction   *)
(* step faults afterwards; the placeholder stands only in a record for     *)
(* which OCR gave no text.                                                 *)
(***************************************************************************)
C2_RawTextRetained ==
    Processed /\ rec # None =>
        /\ req.ocr = "text" => rec[1].raw_ocr_text = Some(text)
        /\ rec[1].raw_ocr_text = Some(Placeholder) => req.ocr # "text"

(***************************************************************************)
(* C3: when the OCR engine is missing, process_prescription_image returns  *)
(* no record and raises the dedicated HTTP error, of another kind than any *)
(* generic processing error, and upload_prescription passes that error on  *)
(* from its HTTPException clause, not from its generic Exception clause.   *)
(***************************************************************************)
C3_EngineMissingIsDedicatedError ==
    /\ Processed /\ req.ocr = "engine_missing" =>
          /\ rec = None
          /\ raised # None
          /\ raised[1].kind = "HTTPException"
    /\ pc = "done" /\ req.ocr = "engine_missing" =>
          /\ response[1].branch = "HTTPException"
          /\ response[1].detail = "OCR processing failed: Tesseract not found."

(***************************************************************************)
(* C11: two invocations of process_prescription_image on identical image   *)
(* bytes, OCR returning the same text both times, return records with the  *)
(* same name, age, gender, visit_date, doctor_notes and raw_ocr_text, each *)
(* with a patient_id of its own; over any sequence of invocations no       *)
(* patient_id is given to two records.                                     *)
(***************************************************************************)
DataFields == ExtractorSet \cup {"raw_ocr_text"}
\* invocations that ran alike: the same OCR outcome, no extractor made to fail
RanAlike(a, b) ==
    /\ a.ocr = b.ocr /\ a.text = b.text
    /\ a.faults = {} /\ b.faults = {}

RecordFields == {"patient_id"} \cup DataFields
\* get_patient_data has answered with a record
Found == pc = "done" /\ req.endpoint = "get_patient_data" /\ response[1].status = 200
\* the record of that patient_id, as process_prescription_image returned it
ReturnedAs(id) == returned[CHOOSE k \in 1..Len(returned) : returned[k].data.patient_id = id].data

C12_LookupReturnsStoredRecord ==
    Found =>
        LET got == response[1].extracted_data[1]
            stored == ReturnedAs(req.patient_id)
        IN \A f \in RecordFields : f \in DOMAIN got /\ got[f] = stored[f]

(***************************************************************************)
(* C13: when the record cannot be stored (client not initialised, insert   *)
(* error, insert returning no row, an exception), upload_prescription      *)
(* answers with an error that carries the data already extracted: the      *)
(* patient_id of the record and its extracted fields.                      *)
(***************************************************************************)
Upload == req # <<>> /\ req.endpoint = "upload_prescription"
SaveFailed ==
    /\ pc = "done" /\ Upload
    /\ req.store \in {"uninitialised", "error", "no_row", "exception"}

C13_FailedSaveCarriesData ==
    SaveFailed =>
        /\ response[1].status >= 400
        /\ response[1].patient_id = rec[1].patient_id
        /\ response[1].extracted_data = Some(rec[1])

(***************************************************************************)
(* C14: in a run of upload_prescription the store is invoked at most once, *)
(* and only after the API key was accepted, a non-empty body was read and  *)
(* process_prescription_image returned a record; a request rejected for    *)
(* its key, an empty body or a missing OCR engine never invokes the store; *)
(* every request ends in one outcome, the 201 answer built from the stored *)
(* record or an HTTP error, and has no outcome before it ends.             *)
(***************************************************************************)
KeyAccepted == given.api_key # None /\ req.header = given.api_key
Rejected ==
    \/ ~KeyAccepted
    \/ req.body \in {"empty", "unreadable"}
    \/ req.ocr = "engine_missing"

C14_StoreOnceAfterAllGates ==
    /\ storeCalls <= 1
    /\ storeCalls = 1 =>
          /\ Upload /\ KeyAccepted /\ req.body = "image"
          /\ rec # None /\ raised = None
    /\ pc = "done" /\ Upload /\ Rejected =>
          /\ storeCalls = 0
          /\ response[1].status >= 400
          /\ \A row \in db : row.patient_id < req.patient_id
    /\ pc = "done" /\ Upload =>
          /\ response # None
          /\ \/ /\ response[1].status = 201
                /\ storeCalls = 1
                /\ DataDict(rec[1]) \in db
                /\ response[1].extracted_data = Some(FromRow(DataDict(rec[1])))
                /\ response[1].patient_id = rec[1].patient_id
             \/ response[1].status \in {400, 403, 500}
    /\ pc \notin {"done"} => response = None

\* a request passed every gate: one insert, answered 201 from the stored row
C14_Witness ==
    /\ pc = "done" /\ Upload
    /\ KeyAccepted /\ req.body = "image" /\ req.ocr = "text"
    /\ storeCalls = 1
    /\ response[1].status = 201
    /\ response[1].extracted_data[1].visit_date = Some(Date(2025, 4, 1))

====
